---- MODULE Spec2Model ----
(***************************************************************************)
(* Model of src/embed/stub/thread.c: the handle-based thread shim          *)
(* functions _lfi_thread_create(fn) and _lfi_thread_destroy(arg).          *)
(* One host caller executes create step by step (one action per C          *)
(* statement that calls into the platform) and destroy atomically; every   *)
(* native thread spawned by pthread_create is scheduled independently.     *)
(* The platform calls (malloc, pthread_attr_init, pthread_attr_setstack-   *)
(* size, pthread_create) may each fail, so their result is drawn with \E.  *)
(***************************************************************************)
EXTENDS Naturals, Integers, Sequences, FiniteSets

\* ---------------------------------------------------------------- bounds
MaxCalls == 2           \* create calls the host makes
MaxAddr == 2            \* heap addresses malloc can hand out

\* ------------------------------------------------------- program constants
NULL == 0
STACK_SIZE == 2 * 1024 * 1024
DEFAULT_STACK == 0      \* "platform default": what pthread_attr_init leaves

Addr == 1..MaxAddr
Ptr == Addr \cup {NULL}
Fns == {"incr", "sleep"}   \* entry functions the host passes as fn
RetCodes == {0, 1}          \* 0 = success, nonzero = an errno value

VARIABLES
    alive,      \* FALSE once the process has been killed by a fault
    pc,         \* the caller's position: "idle" or the next statement of create
    fn,         \* create's parameter fn (NULL while no call is active)
    t,          \* create's local  pthread_t* t
    attrs,      \* create's local  pthread_attr_t attrs
    heap,       \* heap[a] = id of the create call whose malloc owns a, 0 = free
    mem,        \* mem[a] = the pthread_t stored in block a (0 = never written)
    threads,    \* native threads, indexed by thread id
    calls,      \* one record per create call, in call order
    counter,    \* the shared counter the "incr" entry function increments
    attrsLive   \* initialised pthread_attr_t objects never passed to destroy

vars == <<alive, pc, fn, t, attrs, heap, mem, threads, calls, counter, attrsLive>>

UninitAttrs == [init |-> FALSE, stacksize |-> DEFAULT_STACK]

NewCall(f, block) ==
    [fn |-> f, block |-> block, attrInit |-> FALSE, attrOk |-> FALSE,
     spawnTried |-> FALSE, tid |-> 0, returned |-> FALSE, result |-> NULL,
     destroyed |-> FALSE]

\* mutant: the attributes object is not handed to pthread_create
NewThread_default_attrs(f, arg, a) ==
    [fn |-> f, arg |-> arg, stacksize |-> DEFAULT_STACK, state |-> "notstarted",
     detached |-> FALSE, joined |-> FALSE]

NewThread(f, arg, a) ==
    [fn |-> f, arg |-> arg, stacksize |-> a.stacksize, state |-> "notstarted",
     detached |-> FALSE, joined |-> FALSE]

cur == Len(calls)       \* the call in progress while pc # "idle"

Init ==
    /\ alive = TRUE
    /\ pc = "idle"
    /\ fn = NULL
    /\ t = NULL
    /\ attrs = UninitAttrs
    /\ heap = [a \in Addr |-> 0]
    /\ mem = [a \in Addr |-> 0]
    /\ threads = <<>>
    /\ calls = <<>>
    /\ counter = 0
    /\ attrsLive = 0

\* ------------------------------------------------------------ create
\* mutant: the identifier lives in one static block shared by all calls
lfi_thread_create_malloc_static ==
    /\ alive /\ pc = "idle" /\ Len(calls) < MaxCalls
    /\ \E f \in Fns :
        /\ fn' = f
        /\ t' = 1
        /\ heap' = [heap EXCEPT ![1] = Len(calls) + 1]
        /\ calls' = Append(calls, NewCall(f, 1))
    /\ attrs' = UninitAttrs
    /\ pc' = "attr_init"
    /\ UNCHANGED <<alive, mem, threads, counter, attrsLive>>

\* line 4-6: entry, t = malloc(sizeof(pthread_t)), attrs declared.
\* malloc returns any free address, or NULL.
lfi_thread_create_malloc ==
    /\ alive /\ pc = "idle" /\ Len(calls) < MaxCalls
    /\ \E f \in Fns, a \in Ptr :
        /\ a # NULL => heap[a] = 0
        /\ fn' = f
        /\ t' = a
        /\ heap' = IF a = NULL THEN heap
                   ELSE [heap EXCEPT ![a] = Len(calls) + 1]
        /\ calls' = Append(calls, NewCall(f, a))
    /\ attrs' = UninitAttrs
    /\ pc' = "attr_init"
    /\ UNCHANGED <<alive, mem, threads, counter, attrsLive>>

\* mutant: the error return releases the identifier block first
ReturnNull_frees ==
    /\ calls' = [calls EXCEPT ![cur].returned = TRUE, ![cur].result = NULL]
    /\ pc' = "idle"
    /\ fn' = NULL
    /\ t' = NULL
    /\ attrs' = UninitAttrs
    /\ heap' = IF t = NULL THEN heap ELSE [heap EXCEPT ![t] = 0]
    /\ UNCHANGED mem

\* return NULL on an attribute failure (lines 10 and 15): the locals die,
\* nothing is released.
ReturnNull ==
    /\ calls' = [calls EXCEPT ![cur].returned = TRUE, ![cur].result = NULL]
    /\ pc' = "idle"
    /\ fn' = NULL
    /\ t' = NULL
    /\ attrs' = UninitAttrs
    /\ UNCHANGED <<heap, mem>>

\* line 8-11: r = pthread_attr_init(&attrs); if (r) return NULL;
lfi_thread_create_attr_init ==
    /\ alive /\ pc = "attr_init"
    /\ \E r \in RetCodes :
        IF r # 0
        THEN /\ ReturnNull
             /\ UNCHANGED attrsLive
        ELSE /\ attrs' = [init |-> TRUE, stacksize |-> DEFAULT_STACK]
             /\ attrsLive' = attrsLive + 1
             /\ calls' = [calls EXCEPT ![cur].attrInit = TRUE]
             /\ pc' = "setstacksize"
             /\ UNCHANGED <<fn, t, heap, mem>>
    /\ UNCHANGED <<alive, threads, counter>>

\* mutant: the result of pthread_attr_setstacksize is not tested
lfi_thread_create_setstacksize_unchecked ==
    /\ alive /\ pc = "setstacksize"
    /\ \E r \in RetCodes :
        /\ attrs' = IF r = 0 THEN [attrs EXCEPT !.stacksize = STACK_SIZE]
                    ELSE attrs
        /\ calls' = [calls EXCEPT ![cur].attrOk = (r = 0)]
    /\ pc' = "pthread_create"
    /\ UNCHANGED <<alive, fn, t, heap, mem, threads, counter, attrsLive>>

\* line 13-16: r = pthread_attr_setstacksize(&attrs, 2MiB); if (r) return NULL;
lfi_thread_create_setstacksize ==
    /\ alive /\ pc = "setstacksize"
    /\ \E r \in RetCodes :
        IF r # 0
        THEN ReturnNull
        ELSE /\ attrs' = [attrs EXCEPT !.stacksize = STACK_SIZE]
             /\ calls' = [calls EXCEPT ![cur].attrOk = TRUE]
             /\ pc' = "pthread_create"
             /\ UNCHANGED <<fn, t, heap, mem>>
    /\ UNCHANGED <<alive, threads, counter, attrsLive>>

\* mutant: the identifier block is handed to the entry function as context
lfi_thread_create_pthread_create_passes_t ==
    /\ alive /\ pc = "pthread_create"
    /\ \E spawned \in BOOLEAN, faults \in BOOLEAN :
        /\ faults => t = NULL
        /\ threads' = IF spawned
                      THEN Append(threads, NewThread(fn, t, attrs))
                      ELSE threads
        /\ mem' = IF spawned /\ t # NULL
                  THEN [mem EXCEPT ![t] = Len(threads) + 1]
                  ELSE mem
        /\ calls' = [calls EXCEPT ![cur].spawnTried = TRUE,
                                  ![cur].tid = IF spawned THEN Len(threads) + 1
                                               ELSE 0]
        /\ alive' = ~faults
    /\ pc' = "return"
    /\ UNCHANGED <<fn, t, attrs, heap, counter, attrsLive>>

\* line 17: pthread_create(t, &attrs, fn, NULL); the result is discarded.
\* With t # NULL the call either starts a thread and stores its id in *t, or
\* fails and leaves *t alone.  With t = NULL (malloc failed) the store
\* through t is undefined: the thread may or may not have been started when
\* the store happens, and the store may fault (killing the process) or not.
lfi_thread_create_pthread_create ==
    /\ alive /\ pc = "pthread_create"
    /\ \E spawned \in BOOLEAN, faults \in BOOLEAN :
        /\ faults => t = NULL
        /\ threads' = IF spawned
                      THEN Append(threads, NewThread(fn, NULL, attrs))
                      ELSE threads
        /\ mem' = IF spawned /\ t # NULL
                  THEN [mem EXCEPT ![t] = Len(threads) + 1]
                  ELSE mem
        /\ calls' = [calls EXCEPT ![cur].spawnTried = TRUE,
                                  ![cur].tid = IF spawned THEN Len(threads) + 1
                                               ELSE 0]
        /\ alive' = ~faults
    /\ pc' = "return"
    /\ UNCHANGED <<fn, t, attrs, heap, counter, attrsLive>>

\* mutant: create returns only once the new thread has entered fn
lfi_thread_create_return_waits ==
    /\ alive /\ pc = "return"
    /\ calls[cur].tid # 0 => threads[calls[cur].tid].state # "notstarted"
    /\ calls' = [calls EXCEPT ![cur].returned = TRUE, ![cur].result = t]
    /\ pc' = "idle"
    /\ fn' = NULL
    /\ t' = NULL
    /\ attrs' = UninitAttrs
    /\ UNCHANGED <<alive, heap, mem, threads, counter, attrsLive>>

\* mutant: the attributes object is destroyed before the normal return
lfi_thread_create_return_destroys_attrs ==
    /\ alive /\ pc = "return"
    /\ calls' = [calls EXCEPT ![cur].returned = TRUE, ![cur].result = t]
    /\ attrsLive' = attrsLive - 1
    /\ pc' = "idle"
    /\ fn' = NULL
    /\ t' = NULL
    /\ attrs' = UninitAttrs
    /\ UNCHANGED <<alive, heap, mem, threads, counter>>

\* mutant: the pointer outlives the call (a static instead of a local)
lfi_thread_create_return_retains ==
    /\ alive /\ pc = "return"
    /\ calls' = [calls EXCEPT ![cur].returned = TRUE, ![cur].result = t]
    /\ pc' = "idle"
    /\ fn' = NULL
    /\ attrs' = UninitAttrs
    /\ UNCHANGED <<alive, t, heap, mem, threads, counter, attrsLive>>

\* mutant: the block is released on every exit path, the normal one included
lfi_thread_create_return_frees ==
    /\ alive /\ pc = "return"
    /\ calls' = [calls EXCEPT ![cur].returned = TRUE, ![cur].result = t]
    /\ heap' = IF t = NULL THEN heap ELSE [heap EXCEPT ![t] = 0]
    /\ pc' = "idle"
    /\ fn' = NULL
    /\ t' = NULL
    /\ attrs' = UninitAttrs
    /\ UNCHANGED <<alive, mem, threads, counter, attrsLive>>

\* mutant: the result of pthread_create is tested, a failed spawn returns NULL
lfi_thread_create_return_checked ==
    /\ alive /\ pc = "return"
    /\ calls' = [calls EXCEPT ![cur].returned = TRUE,
                              ![cur].result = IF calls[cur].tid = 0 THEN NULL
                                              ELSE t]
    /\ pc' = "idle"
    /\ fn' = NULL
    /\ t' = NULL
    /\ attrs' = UninitAttrs
    /\ UNCHANGED <<alive, heap, mem, threads, counter, attrsLive>>

\* line 18: return t;
lfi_thread_create_return ==
    /\ alive /\ pc = "return"
    /\ calls' = [calls EXCEPT ![cur].returned = TRUE, ![cur].result = t]
    /\ pc' = "idle"
    /\ fn' = NULL
    /\ t' = NULL
    /\ attrs' = UninitAttrs
    /\ UNCHANGED <<alive, heap, mem, threads, counter, attrsLive>>

\* ------------------------------------------------------------ handles
\* The handle of call c is the pointer it returned; it is live while the
\* block behind it is still the one that call allocated.
Present(c) == calls[c].returned /\ calls[c].result # NULL

HandleState(c) ==
    IF ~Present(c) THEN "None"
    ELSE IF heap[calls[c].result] = c THEN "Created" ELSE "Freed"

\* the calls whose handle is arg and has not been passed to destroy yet
Undestroyed(arg) ==
    {c \in 1..Len(calls) :
        Present(c) /\ calls[c].result = arg /\ ~calls[c].destroyed}

\* mutant: destroy forgets the free
Free_nothing(h, p) == h

\* free(p): the block at p goes back to the allocator
Free(h, p) == IF p = NULL THEN h ELSE [h EXCEPT ![p] = 0]

\* the threads spawned by the calls whose handle is arg
ThreadsOf(arg) == {calls[c].tid : c \in Undestroyed(arg)} \ {0}

\* mutant: destroy joins the thread first (pthread_join before free)
lfi_thread_destroy_joins(arg) ==
    /\ alive /\ pc = "idle"
    /\ Undestroyed(arg) # {}
    /\ \A i \in ThreadsOf(arg) : threads[i].state = "finished"
    /\ heap' = Free(heap, arg)
    /\ threads' = [i \in 1..Len(threads) |->
                      IF i \in ThreadsOf(arg)
                      THEN [threads[i] EXCEPT !.joined = TRUE] ELSE threads[i]]
    /\ calls' = [c \in 1..Len(calls) |->
                    IF c \in Undestroyed(arg)
                    THEN [calls[c] EXCEPT !.destroyed = TRUE] ELSE calls[c]]
    /\ UNCHANGED <<alive, pc, fn, t, attrs, mem, counter, attrsLive>>

\* mutant: destroy cancels the thread first (pthread_cancel before free)
lfi_thread_destroy_cancels(arg) ==
    /\ alive /\ pc = "idle"
    /\ Undestroyed(arg) # {}
    /\ heap' = Free(heap, arg)
    /\ threads' = [i \in 1..Len(threads) |->
                      IF i \in ThreadsOf(arg)
                      THEN [threads[i] EXCEPT !.state = "finished"]
                      ELSE threads[i]]
    /\ calls' = [c \in 1..Len(calls) |->
                    IF c \in Undestroyed(arg)
                    THEN [calls[c] EXCEPT !.destroyed = TRUE] ELSE calls[c]]
    /\ UNCHANGED <<alive, pc, fn, t, attrs, mem, counter, attrsLive>>

\* mutant: destroy detaches the thread first (pthread_detach before free)
lfi_thread_destroy_detaches(arg) ==
    /\ alive /\ pc = "idle"
    /\ Undestroyed(arg) # {}
    /\ heap' = Free(heap, arg)
    /\ threads' = [i \in 1..Len(threads) |->
                      IF i \in ThreadsOf(arg)
                      THEN [threads[i] EXCEPT !.detached = TRUE]
                      ELSE threads[i]]
    /\ calls' = [c \in 1..Len(calls) |->
                    IF c \in Undestroyed(arg)
                    THEN [calls[c] EXCEPT !.destroyed = TRUE] ELSE calls[c]]
    /\ UNCHANGED <<alive, pc, fn, t, attrs, mem, counter, attrsLive>>

\* ------------------------------------------------------------ destroy
\* line 21-23: free((pthread_t*) arg).  The host passes a handle it got from
\* create and has not destroyed yet (anything else is outside the contract).
lfi_thread_destroy(arg) ==
    /\ alive /\ pc = "idle"
    /\ Undestroyed(arg) # {}
    /\ heap' = Free(heap, arg)
    /\ calls' = [c \in 1..Len(calls) |->
                    IF c \in Undestroyed(arg)
                    THEN [calls[c] EXCEPT !.destroyed = TRUE] ELSE calls[c]]
    /\ UNCHANGED <<alive, pc, fn, t, attrs, mem, threads, counter, attrsLive>>

\* ------------------------------------------------------------ native threads
\* The platform starts a spawned thread: it calls fn(NULL).
ThreadStart(i) ==
    /\ alive
    /\ threads[i].state = "notstarted"
    /\ threads' = [threads EXCEPT ![i].state = "running"]
    /\ UNCHANGED <<alive, pc, fn, t, attrs, heap, mem, calls, counter, attrsLive>>

\* The entry function runs to its end: "incr" adds one to the shared
\* counter, "sleep" only lets time pass.
ThreadFinish(i) ==
    /\ alive
    /\ threads[i].state = "running"
    /\ threads' = [threads EXCEPT ![i].state = "finished"]
    /\ counter' = IF threads[i].fn = "incr" THEN counter + 1 ELSE counter
    /\ UNCHANGED <<alive, pc, fn, t, attrs, heap, mem, calls, attrsLive>>

Next ==
    \/ lfi_thread_create_malloc
    \/ lfi_thread_create_attr_init
    \/ lfi_thread_create_setstacksize
    \/ lfi_thread_create_pthread_create
    \/ lfi_thread_create_return
    \/ \E arg \in Addr : lfi_thread_destroy(arg)
    \/ \E i \in 1..Len(threads) : ThreadStart(i)
    \/ \E i \in 1..Len(threads) : ThreadFinish(i)

Spec == Init /\ [][Next]_vars

\* A call to create that has begun runs to its return, and the platform
\* scheduler runs every thread it has started; the host is free to stop
\* calling create and destroy.
Fairness ==
    /\ WF_vars(lfi_thread_create_attr_init)
    /\ WF_vars(lfi_thread_create_setstacksize)
    /\ WF_vars(lfi_thread_create_pthread_create)
    /\ WF_vars(lfi_thread_create_return)
    /\ \A i \in 1..MaxCalls : WF_vars(i <= Len(threads) /\ ThreadStart(i))
    /\ \A i \in 1..MaxCalls : WF_vars(i <= Len(threads) /\ ThreadFinish(i))

FairSpec == Spec /\ Fairness

\* ==================================================================
\* Properties
\* ==================================================================
CallIds == 1..Len(calls)

\* the entry function of the thread call c spawned has been invoked
Ran(c) == calls[c].tid # 0 /\ threads[calls[c].tid].state # "notstarted"

\* C1: a create call in which pthread_attr_init or pthread_attr_setstacksize
\* failed returns NULL and spawns no native thread: it never reaches
\* pthread_create, and every native thread belongs to a call that did.
C1_AttrFailureNoHandleNoThread ==
    /\ \A c \in CallIds :
         (calls[c].returned /\ ~calls[c].attrOk) =>
             /\ calls[c].result = NULL
             /\ ~calls[c].spawnTried
             /\ calls[c].tid = 0
    /\ Len(threads) = Cardinality({c \in CallIds : calls[c].tid # 0})
    /\ \A c \in CallIds : calls[c].tid # 0 => calls[c].attrOk

\* C1 witness: pthread_attr_setstacksize failed in a call that has returned,
\* while another call did spawn a thread.
C1_Witness ==
    \E c, d \in CallIds :
        /\ calls[c].returned /\ calls[c].attrInit /\ ~calls[c].attrOk
        /\ calls[c].result = NULL
        /\ calls[d].tid # 0

\* C2 (as claimed): under fair scheduling every create call that returned a
\* non-NULL handle is followed by a state in which its entry function has run.
C2_PresentHandleEventuallyRuns ==
    \A c \in 1..MaxCalls :
        (c <= Len(calls) /\ Present(c)) ~> (c <= Len(calls) /\ Ran(c))

\* C3 (as claimed): whenever attribute configuration succeeded, create
\* returns a non-NULL handle, whether or not the spawn succeeded.
C3_AttrOkImpliesPresent ==
    \A c \in CallIds :
        (calls[c].returned /\ calls[c].attrOk) => calls[c].result # NULL

\* C3, the part the code does satisfy: whenever malloc and attribute
\* configuration both succeeded, create returns the block malloc gave it, a
\* non-NULL handle, whether the spawn succeeded (tid # 0) or failed
\* (tid = 0); the result of pthread_create has no influence on the value
\* returned.
C3_ReturnIgnoresSpawnResult ==
    \A c \in CallIds :
        (calls[c].returned /\ calls[c].attrOk /\ calls[c].block # NULL) =>
            /\ calls[c].spawnTried
            /\ calls[c].result = calls[c].block
            /\ calls[c].result # NULL

\* C3, the reachable state it names: a returned, non-NULL handle whose spawn
\* failed, so that no thread was started for it.
C3_Witness ==
    \E c \in CallIds :
        Present(c) /\ calls[c].spawnTried /\ calls[c].tid = 0

\* C4: for every create call that returned a non-NULL handle, the handle is
\* the block that call allocated; the block stays allocated to that call
\* until the handle is destroyed and is not allocated to it afterwards. So
\* once every returned handle has been destroyed, no block of a successful
\* create is still allocated.
C4_DestroyFreesTheBlock ==
    /\ \A c \in CallIds : Present(c) =>
         /\ calls[c].result = calls[c].block
         /\ calls[c].destroyed => heap[calls[c].block] # c
         /\ ~calls[c].destroyed => heap[calls[c].block] = c
    /\ (\A c \in CallIds : Present(c) => calls[c].destroyed) =>
         \A a \in Addr : heap[a] # 0 => ~Present(heap[a])

\* C4 witness: every create call returned a handle and every handle has
\* been destroyed; the heap is empty again.
C4_Witness ==
    /\ Len(calls) = MaxCalls
    /\ \A c \in CallIds : Present(c) /\ calls[c].destroyed
    /\ \A a \in Addr : heap[a] = 0

\* C5: the block allocated by a create call that returned NULL on the
\* attribute-failure path stays allocated to that call in every later state,
\* and no handle for it exists that destroy could be given.
C5_AttrFailureLeaksBlock ==
    \A c \in CallIds :
        (calls[c].returned /\ ~calls[c].attrOk /\ calls[c].block # NULL) =>
            /\ heap[calls[c].block] = c
            /\ ~Present(c)
            /\ ~calls[c].destroyed

\* C5 witness: a call leaked its block on the attribute-failure path, and
\* later a handle of another call was created and destroyed.
C5_Witness ==
    \E c, d \in CallIds :
        /\ calls[c].returned /\ ~calls[c].attrOk /\ calls[c].block # NULL
        /\ c < d /\ Present(d) /\ calls[d].destroyed

\* C6: destroy never waits for the spawned thread: whenever the host is
\* between calls and holds a handle it has not destroyed, destroy of that
\* handle can be taken, whatever the state of the handle's thread (none,
\* not started, running, finished).
C6_DestroyNeverBlocks ==
    \A c \in CallIds :
        (alive /\ pc = "idle" /\ Present(c) /\ ~calls[c].destroyed) =>
            ENABLED lfi_thread_destroy(calls[c].result)

\* C6 witness: destroy has completed on a handle whose entry function is
\* still running.
C6_Witness ==
    \E c \in CallIds :
        /\ Present(c) /\ calls[c].destroyed
        /\ calls[c].tid # 0 /\ threads[calls[c].tid].state = "running"

\* the step destroys the handle of call c
DestroyStep(c) ==
    c <= Len(calls) /\ ~calls[c].destroyed /\ calls'[c].destroyed

\* C7: a destroy step changes nothing but the handle's heap block (and the
\* record that the handle was destroyed): the native threads, and so the
\* execution state of the handle's thread, the shared counter, the stored
\* thread ids and every other block are the same after it as before it.
C7_DestroyOnlyFreesBlock ==
    [][\A c \in 1..MaxCalls : DestroyStep(c) =>
          /\ threads' = threads
          /\ counter' = counter
          /\ mem' = mem
          /\ attrsLive' = attrsLive
          /\ alive' = alive /\ pc' = pc
          /\ \A a \in Addr : a # calls[c].result => heap'[a] = heap[a]
          /\ heap'[calls[c].result] = 0]_vars

\* C7 witness: a handle was destroyed before its thread had started.
C7_Witness ==
    \E c \in CallIds :
        /\ Present(c) /\ calls[c].destroyed
        /\ calls[c].tid # 0 /\ threads[calls[c].tid].state = "notstarted"

\* every create call has been made with the incrementing entry function,
\* returned a handle, and the handle has been destroyed
AllIncrCreatedAndDestroyed ==
    /\ Len(calls) = MaxCalls
    /\ \A c \in CallIds :
         calls[c].fn = "incr" /\ Present(c) /\ calls[c].destroyed

\* C8 (as claimed): N = MaxCalls handles are created with the entry function
\* that increments the shared counter once, and each is destroyed; under fair
\* scheduling the counter eventually reaches N.
C8_CounterReachesN ==
    AllIncrCreatedAndDestroyed ~> (counter = MaxCalls)

\* C9: a handle is Created from the return of its create call, the only
\* transition is Created -> Freed and it is taken by destroy (and destroy
\* always takes it), Freed is terminal, and no thread is ever joined.
C9_HandleStateMachine ==
    [][\A c \in 1..MaxCalls : c <= Len(calls) =>
          /\ HandleState(c) = "None" => HandleState(c)' \in {"None", "Created"}
          /\ (HandleState(c) = "None" /\ HandleState(c)' = "Created") =>
                 (~calls[c].returned /\ calls'[c].returned)
          /\ (~Present(c) /\ Present(c)') => HandleState(c)' = "Created"
          /\ HandleState(c) = "Created" =>
                 HandleState(c)' = IF DestroyStep(c) THEN "Freed" ELSE "Created"
          /\ HandleState(c) = "Freed" => HandleState(c)' = "Freed"
          /\ \A i \in 1..Len(threads') : ~threads'[i].joined]_vars

\* C9 witness: a handle is Freed while the address it used is the Created
\* handle of a later call.
C9_Witness ==
    \E c, d \in CallIds :
        /\ HandleState(c) = "Freed" /\ HandleState(d) = "Created"
        /\ calls[c].result = calls[d].result

\* C10: no two create calls hold a handle for the same native thread, a
\* live handle's block stores the id of the thread its call spawned, and
\* between calls the component holds no pointer to any handle.
C10_OneHandlePerThread ==
    /\ \A c, d \in CallIds :
         (c # d /\ calls[c].tid # 0 /\ calls[d].tid # 0) =>
             calls[c].tid # calls[d].tid
    /\ \A c \in CallIds :
         (HandleState(c) = "Created" /\ calls[c].tid # 0) =>
             mem[calls[c].result] = calls[c].tid
    /\ \A c, d \in CallIds :
         (c # d /\ HandleState(c) = "Created" /\ HandleState(d) = "Created") =>
             calls[c].result # calls[d].result
    /\ pc = "idle" => (t = NULL /\ fn = NULL)

\* C10 witness: two threads were spawned, one handle is live and the other
\* has been freed.
C10_Witness ==
    \E c, d \in CallIds :
        /\ calls[c].tid # 0 /\ calls[d].tid # 0 /\ c # d
        /\ HandleState(c) = "Created" /\ HandleState(d) = "Freed"

\* C11: every native thread is created with a requested stack size of
\* exactly 2 MiB, and no step (a create of another handle, a destroy, the
\* thread's own progress) changes the stack size of an existing thread.
C11_StackSizeFixed ==
    [][/\ \A i \in 1..Len(threads') : threads'[i].stacksize = 2 * 1024 * 1024
       /\ \A i \in 1..Len(threads) :
             /\ i <= Len(threads')
             /\ threads'[i].stacksize = threads[i].stacksize]_vars

\* C11 witness: two threads exist, the handle of the first has been
\* destroyed and the first thread has finished.
C11_Witness ==
    /\ Len(threads) = 2
    /\ threads[1].state = "finished"
    /\ threads[1].stacksize = STACK_SIZE /\ threads[2].stacksize = STACK_SIZE
    /\ \E c \in CallIds : calls[c].tid = 1 /\ calls[c].destroyed

\* C12: create does not wait for the new thread: once pthread_create has
\* been called, the return of create can be taken whatever the state of the
\* new thread, in particular before its entry function has started.
C12_CreateDoesNotWait ==
    (alive /\ pc = "return") => ENABLED lfi_thread_create_return

\* C12 witness: create has returned a handle that is still live, and the
\* entry function of its thread has not started.
C12_Witness ==
    \E c \in CallIds :
        /\ Present(c) /\ ~calls[c].destroyed
        /\ calls[c].tid # 0 /\ threads[calls[c].tid].state = "notstarted"

\* C13: every native thread is given a null context argument, whatever the
\* entry function and whichever create call spawned it.
C13_NullContext ==
    \A i \in 1..Len(threads) : threads[i].arg = NULL

\* C13 witness: both entry functions have been invoked, each with a null
\* argument, by threads of different create calls.
C13_Witness ==
    \E i, j \in 1..Len(threads) :
        /\ threads[i].fn = "incr" /\ threads[j].fn = "sleep"
        /\ threads[i].state # "notstarted" /\ threads[j].state # "notstarted"
        /\ threads[i].arg = NULL /\ threads[j].arg = NULL

\* C14 (as claimed): whenever create has returned NULL, that call attempted
\* no thread spawn, whatever made the result NULL.
C14_AbsentMeansNoSpawnAttempt ==
    \A c \in CallIds :
        (calls[c].returned /\ calls[c].result = NULL) => ~calls[c].spawnTried

\* C15: every native thread is created joinable and is never joined nor
\* detached, in every state: before and after the destroy of its handle and
\* after its entry function has finished.
C15_NeverJoinedNorDetached ==
    \A i \in 1..Len(threads) : ~threads[i].joined /\ ~threads[i].detached

\* C15 witness: a thread has finished and its handle has been destroyed, and
\* it is still joinable and unjoined.
C15_Witness ==
    \E c \in CallIds :
        /\ Present(c) /\ calls[c].destroyed /\ calls[c].tid # 0
        /\ threads[calls[c].tid].state = "finished"
        /\ ~threads[calls[c].tid].joined /\ ~threads[calls[c].tid].detached

\* C16: the attributes object initialised by create is never destroyed:
\* the number of initialised, never-released attributes objects equals the
\* number of create calls in which pthread_attr_init succeeded, whichever
\* way those calls went on.
C16_AttrsNeverDestroyed ==
    attrsLive = Cardinality({c \in CallIds : calls[c].attrInit})

\* C16 witness: one call left through the stack-size failure return and
\* another through the normal return; two attributes objects are left.
C16_Witness ==
    /\ attrsLive = 2
    /\ \E c, d \in CallIds :
        /\ calls[c].returned /\ calls[c].attrInit /\ ~calls[c].attrOk
        /\ calls[d].returned /\ calls[d].spawnTried

\* the step is a step of the host on the handle of call c: a statement of
\* the create call c, or the destroy of c's handle
HostStepOn(c) ==
    \/ pc' # pc /\ c = Len(calls')
    \/ DestroyStep(c)

\* C17: a create or destroy step on one handle leaves every other call's
\* record, handle state, identifier block (its owner and the id stored in
\* it) and thread unchanged, and any two handles that are both Created
\* are distinct pointers.
C17_HandlesIndependent ==
    [][/\ \A c, d \in 1..MaxCalls :
            (HostStepOn(c) /\ d # c /\ d <= Len(calls)) =>
                /\ calls'[d] = calls[d]
                /\ HandleState(d)' = HandleState(d)
                /\ calls[d].block # NULL =>
                     /\ (heap[calls[d].block] = d) = (heap'[calls[d].block] = d)
                     /\ heap[calls[d].block] = d =>
                          mem'[calls[d].block] = mem[calls[d].block]
                /\ calls[d].tid # 0 =>
                     threads'[calls[d].tid] = threads[calls[d].tid]
       /\ \A c, d \in 1..Len(calls') :
            (c # d /\ HandleState(c)' = "Created" /\ HandleState(d)' = "Created")
                => calls'[c].result # calls'[d].result]_vars

\* C17 witness: two handles are Created at once, at different addresses,
\* each with its own thread.
C17_Witness ==
    \E c, d \in CallIds :
        /\ c # d
        /\ HandleState(c) = "Created" /\ HandleState(d) = "Created"
        /\ calls[c].result # calls[d].result
        /\ calls[c].tid # 0 /\ calls[d].tid # 0

====
